---------------------------- MODULE Spec2Model ----------------------------
(* A model of josh's commit projector (scratch.rs: rewrite, unapply_view,   *)
(* apply_view_cached) and of the marker overlay (graphql.rs: format_marker, *)
(* RepositoryMut::meta, Markers::data).                                     *)
(*                                                                          *)
(* The object store is content addressed: an oid is modelled by the record  *)
(* of the commit's contents, so two commits with the same author,           *)
(* committer, message, tree and parents are the same oid.                   *)
EXTENDS Integers, Sequences, FiniteSets, TLC

VARIABLES
    odb,            \* the commits of the repository's object database
    view,           \* the filter this (repository, filter) pair's caches belong to
    forward_map,    \* ViewMap: original commit -> projected commit
    backward_maps,  \* ViewMaps: "<repo path>--<viewstr>" -> ViewMap (projected -> original)
    last,           \* what the last call did (its arguments, result and trace)
    meta_ref,       \* refs/josh/meta: None, or the commit it points to
    mlast,          \* what the last call on the marker overlay did
    refs,           \* the references of the repository: name -> commit
    threads,        \* where each concurrent request is in its call
    mutex           \* Mutex<ViewMaps>: None, or the thread that holds the lock

vars == <<odb, view, forward_map, backward_maps, last, meta_ref, mlast,
          refs, threads, mutex>>

----------------------------------------------------------------------------
(* Bounds of the model *)

\* largest blob content of a path (0: the path is absent)
MaxContent == 1
\* commits are pushed from outside while the store holds fewer than this
MaxCommits == 3
\* no call is taken that would leave more commits than this in the store
MaxStore == 5
\* a pushed commit has at most this many parents
MaxParents == 2

----------------------------------------------------------------------------
(* Trees, commits, options, maps *)

Contents == 0..MaxContent
\* a tree holds the content of path "a" and of path "b"
Trees == Contents \X Contents
empty_tree == <<0, 0>>

Signatures == {"sig"}
BadUtf8 == "<not utf-8>"
Messages == {"m", BadUtf8}

None == <<>>
Some(x) == <<x>>

EmptyMap == [x \in {} |-> x]
Get(m, k) == IF k \in DOMAIN m THEN Some(m[k]) ELSE None
Insert(m, k, v) == [x \in DOMAIN m \cup {k} |-> IF x = k THEN v ELSE m[x]]
Values(m) == {m[k] : k \in DOMAIN m}

\* repo.commit(None, author, committer, message, tree, parents): the oid of
\* the commit object with these contents
RepoCommit(author, committer, message, tree, parents) ==
    [author |-> author, committer |-> committer, message |-> message,
     tree |-> tree, parents |-> parents]

SeqToSet(s) == {s[i] : i \in DOMAIN s}

RECURSIVE Ancestors(_)
Ancestors(c) == {c} \cup UNION {Ancestors(c.parents[i]) : i \in DOMAIN c.parents}

\* every order of S in which a commit comes after its parents
RECURSIVE TopoOrders(_)
TopoOrders(S) ==
    IF S = {} THEN {<<>>}
    ELSE UNION {{<<c>> \o rest : rest \in TopoOrders(S \ {c})} :
                c \in {x \in S : \A i \in DOMAIN x.parents : x.parents[i] \notin S}}

\* repo.revwalk() with Sort::REVERSE | Sort::TOPOLOGICAL, push(push), hide(hide):
\* the commits reachable from push and not from a hidden one, parents first.
\* The order among unrelated commits is the library's; every one is allowed.
Revwalk(push, hide) ==
    TopoOrders(Ancestors(push) \ UNION {Ancestors(h) : h \in hide})

----------------------------------------------------------------------------
(* Views (the View trait's implementations are not part of scratch.rs) *)

Views == {"nop", "empty", "glob", "workspace"}

\* view.apply_to_tree: the filter as a total function on trees
ApplyToTree(v, t) ==
    CASE v = "nop" -> t
      [] v = "empty" -> empty_tree
      [] v = "glob" -> <<t[1], 0>>
      [] v = "workspace" -> <<t[1], 0>>

\* the parent instructions of view.apply_to_commit: None is Same, Some(tview)
\* is Transform(tview); the workspace view has its first parent projected
\* under another filter
ParentTransforms(v, commit) ==
    [i \in DOMAIN commit.parents |->
        <<IF v = "workspace" /\ i = 1 THEN Some("nop") ELSE None, commit.parents[i]>>]

\* view.apply_to_commit
ApplyToCommit(v, commit) ==
    <<ApplyToTree(v, commit.tree), ParentTransforms(v, commit)>>

\* view.unapply(tree, parent_tree): the parent tree with the part the filter
\* shows replaced by tree
ViewUnapply(v, tree, parent_tree) ==
    CASE v = "nop" -> tree
      [] v = "empty" -> parent_tree
      [] v = "glob" -> <<tree[1], parent_tree[2]>>
      [] v = "workspace" -> <<tree[1], parent_tree[2]>>

----------------------------------------------------------------------------
(* rewrite *)

AllEqual(a, b) ==
    /\ Len(a) = Len(b)
    /\ \A i \in DOMAIN b : b[i] = a[i]

\* base.message().unwrap_or("no message")
MessageOr(base) == IF base.message = BadUtf8 THEN "no message" ELSE base.message

RewriteAlwaysCommits(base, parents, tree) ==
    LET result == RepoCommit(base.author, base.committer, MessageOr(base), tree, parents)
    IN  [oid |-> result, wrote |-> {result}]

\* the oid rewrite returns and the commit objects it wrote
Rewrite(base, parents, tree) ==
    IF base.tree = tree /\ AllEqual(base.parents, parents)
    THEN [oid |-> base, wrote |-> {}]
    ELSE LET result == RepoCommit(base.author, base.committer, MessageOr(base),
                                  tree, parents)
         IN  [oid |-> result, wrote |-> {result}]

----------------------------------------------------------------------------
(* apply_view_cached *)

\* A call's state: the two maps it was given, the store, whether it
\* panicked, and per walked commit what was done with it.
CallState(fwd, bwd, db) ==
    [fwd |-> fwd, bwd |-> bwd, odb |-> db, panic |-> FALSE, log |-> EmptyMap]

Event(kind, new_tree, tps, kept, committed, bwd, before, after) ==
    [kind |-> kind, new_tree |-> new_tree, tps |-> tps, kept |-> kept,
     committed |-> committed,
     bwd |-> bwd,
     wrote |-> after.odb \ before.odb,
     fwd_added |-> DOMAIN after.fwd \ DOMAIN before.fwd,
     bwd_added |-> DOMAIN after.bwd \ DOMAIN before.bwd]

\* the first thing done with a commit is what the trace keeps; bwd is the
\* backward map that parent filtering reads
Logged(before, after, commit, kind, new_tree, tps, kept, committed, bwd) ==
    IF commit \in DOMAIN before.log THEN after
    ELSE [after EXCEPT !.log =
            Insert(before.log, commit,
                   Event(kind, new_tree, tps, kept, committed, bwd, before, after))]

IsDroppedInverted(new_tree, commit) ==
    new_tree = empty_tree /\ commit.tree = empty_tree

\* line 248: the commit is dropped
IsDropped(new_tree, commit) ==
    new_tree = empty_tree /\ commit.tree # empty_tree

\* lines 277-291: backward_map[&id] panics on a missing key
LookupPanics(new_tree, tp, bwd) ==
    new_tree = tp.tree /\ tp \notin DOMAIN bwd

KeepParentByTreeOnly(new_tree, commit, tp, bwd) ==
    new_tree # tp.tree

\* lines 277-291: the parent is pushed to filtered_transformed_parent_refs
KeepParent(new_tree, commit, tp, bwd) ==
    \/ new_tree # tp.tree
    \/ commit.tree = bwd[tp].tree

\* every projected parent is kept
FilterParentsKeepsAll(new_tree, commit, tps, bwd) == tps

\* lines 273-292: filtered_transformed_parent_refs
RECURSIVE FilterParents(_, _, _, _)
FilterParents(new_tree, commit, tps, bwd) ==
    IF tps = <<>> THEN <<>>
    ELSE (IF KeepParent(new_tree, commit, Head(tps), bwd) THEN <<Head(tps)>> ELSE <<>>)
         \o FilterParents(new_tree, commit, Tail(tps), bwd)

CoalesceLast(st, commit, tps) ==
    [st EXCEPT !.fwd = Insert(st.fwd, commit, tps[Len(tps)])]

CoalesceSwapped(st, commit, tps) ==
    [st EXCEPT !.fwd = Insert(st.fwd, tps[1], commit)]

\* lines 294-298
Coalesce(st, commit, tps) ==
    [st EXCEPT !.fwd = Insert(st.fwd, commit, tps[1])]

\* lines 300-306
Materialize(st, commit, kept, new_tree) ==
    LET rw == Rewrite(commit, kept, new_tree)
    IN  [st EXCEPT !.odb = st.odb \cup rw.wrote,
                   !.fwd = Insert(st.fwd, commit, rw.oid),
                   !.bwd = Insert(st.bwd, rw.oid, commit)]

\* lines 273-307 for one commit whose parents were projected to tps
FinishCommit(st0, st, commit, new_tree, tps) ==
    IF st.panic THEN st
    ELSE IF \E i \in DOMAIN tps : LookupPanics(new_tree, tps[i], st.bwd)
    THEN Logged(st0, [st EXCEPT !.panic = TRUE], commit, "panic", new_tree, tps, <<>>, {}, st.bwd)
    ELSE LET kept == FilterParents(new_tree, commit, tps, st.bwd)
         IN  IF Len(kept) = 0 /\ Len(tps) # 0
             THEN Logged(st0, Coalesce(st, commit, tps), commit,
                         "coalesce", new_tree, tps, kept, {}, st.bwd)
             ELSE Logged(st0, Materialize(st, commit, kept, new_tree), commit,
                         "rewrite", new_tree, tps, kept,
                         Rewrite(commit, kept, new_tree).wrote, st.bwd)

RECURSIVE ApplyViewCached(_, _, _), WalkFrom(_, _, _, _), WalkCommit(_, _, _),
          TransformParents(_, _, _, _, _)

\* apply_view: a projection with two new maps; the store is shared
ApplyView(st, tview, newrev) ==
    {[st |-> [st EXCEPT !.odb = r.st.odb, !.panic = r.st.panic], ret |-> r.ret] :
        r \in ApplyViewCached(tview, newrev, CallState(EmptyMap, EmptyMap, st.odb))}

\* lines 253-271: the projected parents, in the order of the instructions
TransformParents(v, pts, i, st, acc) ==
    IF i > Len(pts) \/ st.panic THEN {[st |-> st, tps |-> acc]}
    ELSE LET transform == pts[i][1]
             parent_id == pts[i][2]
             results == IF transform = None
                        THEN ApplyViewCached(v, parent_id, st)
                        ELSE ApplyView(st, transform[1], parent_id)
         IN  UNION {TransformParents(v, pts, i + 1, r.st,
                        IF r.ret = None THEN acc ELSE Append(acc, r.ret[1])) :
                    r \in results}

\* the body of the 'walk loop for one commit
WalkCommit(v, commit, st) ==
    IF st.panic THEN {st}
    ELSE IF commit \in DOMAIN st.fwd THEN {st}
    ELSE LET atc == ApplyToCommit(v, commit)
             new_tree == atc[1]
         IN  IF IsDropped(new_tree, commit)
             THEN {Logged(st, st, commit, "drop", new_tree, <<>>, <<>>, {}, st.bwd)}
             ELSE {FinishCommit(st, r.st, commit, new_tree, r.tps) :
                    r \in TransformParents(v, atc[2], 1, st, <<>>)}

WalkFrom(v, walk, i, st) ==
    IF i > Len(walk) THEN {st}
    ELSE UNION {WalkFrom(v, walk, i + 1, s) : s \in WalkCommit(v, walk[i], st)}

\* apply_view_cached(repo, view, newrev, forward_map, backward_map): every
\* outcome [st, ret] the walk orders allow
ApplyViewCached(v, newrev, st) ==
    IF st.panic THEN {[st |-> st, ret |-> None]}
    ELSE IF newrev \in DOMAIN st.fwd THEN {[st |-> st, ret |-> Some(st.fwd[newrev])]}
    ELSE {[st |-> s, ret |-> IF s.panic THEN None ELSE Get(s.fwd, newrev)] :
            s \in UNION {WalkFrom(v, walk, 1, st) : walk \in Revwalk(newrev, {})}}

----------------------------------------------------------------------------
(* unapply_view *)

\* format!("{:?}--{}", &repo.path(), &viewstr)
MapKey == <<"repo", view>>

\* the ViewMap of this repository and filter
BackwardMap == IF MapKey \in DOMAIN backward_maps THEN backward_maps[MapKey] ELSE EmptyMap

\* an entry that is a new map on every call
EntryInsertsAlways(maps, key) == Insert(maps, key, EmptyMap)

\* backward_map.entry(key).or_insert_with(ViewMap::new)
EntryOrInsert(maps, key) ==
    IF key \in DOMAIN maps THEN maps ELSE Insert(maps, key, EmptyMap)

\* repo.graph_descendant_of(commit, ancestor)
GraphDescendantOf(db, commit, ancestor) ==
    IF commit \notin db \/ ancestor \notin db THEN "Err"
    ELSE IF commit # ancestor /\ ancestor \in Ancestors(commit) THEN "Ok(true)"
    ELSE "Ok(false)"

NoChanges == [kind |-> "NoChanges", oid |-> None]
RejectNoFF == [kind |-> "RejectNoFF", oid |-> None]
RejectMerge == [kind |-> "RejectMerge", oid |-> None]
Done(oid) == [kind |-> "Done", oid |-> Some(oid)]

IsMergeOffByOne(commit) == Len(commit.parents) > 2

\* line 114: module_commit.parents().count() > 1
IsMerge(commit) == Len(commit.parents) > 1

LookupOrSelf(bm, old) == IF old \in DOMAIN bm THEN Some(bm[old]) ELSE Some(old)

\* line 81: bm.get(&old)
BackwardLookup(bm, old) == Get(bm, old)

\* lines 104-138: the loop over the walk
RECURSIVE UnapplyWalk(_, _, _, _, _)
UnapplyWalk(v, walk, i, current, db) ==
    IF i > Len(walk) THEN [ret |-> Done(current), odb |-> db]
    ELSE LET module_commit == walk[i]
         IN  IF IsMerge(module_commit)
             THEN [ret |-> RejectMerge, odb |-> db]
             ELSE LET parent == current
                      new_tree == ViewUnapply(v, module_commit.tree, parent.tree)
                      rw == Rewrite(module_commit, <<parent>>, new_tree)
                  IN  UnapplyWalk(v, walk, i + 1, rw.oid, db \cup rw.wrote)

\* lines 86-138: unapply_view from the descendant test on, with the commit
\* the lookup gave: every outcome [ret, odb]
UnapplyAfterLookup(v, current, db, old, new) ==
    IF GraphDescendantOf(db, new, old) # "Ok(true)"
    THEN {[ret |-> RejectNoFF, odb |-> db]}
    ELSE {UnapplyWalk(v, walk, 1, current, db) : walk \in Revwalk(new, {old})}

\* unapply_view looking old up before it compares old and new
UnapplyViewLookupFirst(v, maps, key, db, old, new) ==
    LET maps1 == EntryOrInsert(maps, key)
        bm == maps1[key]
        current == BackwardLookup(bm, old)
    IN  IF current = None
        THEN {[ret |-> RejectNoFF, odb |-> db, maps |-> maps1]}
        ELSE IF old = new THEN {[ret |-> NoChanges, odb |-> db, maps |-> maps1]}
        ELSE IF GraphDescendantOf(db, new, old) # "Ok(true)"
        THEN {[ret |-> RejectNoFF, odb |-> db, maps |-> maps1]}
        ELSE {[ret |-> r.ret, odb |-> r.odb, maps |-> maps1] :
               r \in {UnapplyWalk(v, walk, 1, current[1], db) :
                       walk \in Revwalk(new, {old})}}

\* unapply_view(repo, backward_maps, viewstr, viewobj, old, new): every
\* outcome [ret, odb, maps] the walk orders allow
UnapplyViewOutcomes(v, maps, key, db, old, new) ==
    IF old = new THEN {[ret |-> NoChanges, odb |-> db, maps |-> maps]}
    ELSE LET maps1 == EntryOrInsert(maps, key)
             bm == maps1[key]
             current == BackwardLookup(bm, old)
         IN  IF current = None
             THEN {[ret |-> RejectNoFF, odb |-> db, maps |-> maps1]}
             ELSE IF GraphDescendantOf(db, new, old) # "Ok(true)"
             THEN {[ret |-> RejectNoFF, odb |-> db, maps |-> maps1]}
             ELSE {[ret |-> r.ret, odb |-> r.odb, maps |-> maps1] :
                    r \in {UnapplyWalk(v, walk, 1, current[1], db) :
                            walk \in Revwalk(new, {old})}}

----------------------------------------------------------------------------
(* Strings, oids and JSON of the marker overlay (graphql.rs) *)

\* A string is the sequence of its characters. These are the characters of
\* the model, in byte order.
Bytes ==
    <<"\n", " ", "0", "1", "2", "3", "4", "5", "6", "7", "8", "9", ":",
      "A", "B", "C", "D", "E", "F", "a", "b", "c", "d", "e", "f", "x">>

ByteIndex == [c \in {Bytes[i] : i \in DOMAIN Bytes} |->
                CHOOSE i \in DOMAIN Bytes : Bytes[i] = c]
ByteOf(c) == ByteIndex[c]

\* a < b for str: bytewise lexicographic
RECURSIVE LexLess(_, _)
LexLess(a, b) ==
    IF b = <<>> THEN FALSE
    ELSE IF a = <<>> THEN TRUE
    ELSE IF a[1] = b[1] THEN LexLess(Tail(a), Tail(b))
    ELSE ByteOf(a[1]) < ByteOf(b[1])

Err == [ok |-> FALSE]
Ok(v) == [ok |-> TRUE, v |-> v]

Digits == <<"0", "1", "2", "3", "4", "5", "6", "7", "8", "9">>
LowerHex == <<"a", "b", "c", "d", "e", "f">>
UpperHex == <<"A", "B", "C", "D", "E", "F">>

IsIn(c, chars) == \E i \in DOMAIN chars : chars[i] = c
IndexIn(c, chars) == CHOOSE i \in DOMAIN chars : chars[i] = c

\* git__fromhex: the value of a hex digit, upper or lower case
HexChars == {Digits[i] : i \in DOMAIN Digits} \cup {LowerHex[i] : i \in DOMAIN LowerHex}
                \cup {UpperHex[i] : i \in DOMAIN UpperHex}
HexValue == [c \in HexChars |->
                IF IsIn(c, Digits) THEN IndexIn(c, Digits) - 1
                ELSE IF IsIn(c, LowerHex) THEN IndexIn(c, LowerHex) + 9
                ELSE IndexIn(c, UpperHex) + 9]
IsHex(c) == c \in HexChars
FromHex(c) == HexValue[c]

\* git2::Oid::from_str: an oid is its 40 hex digit values; a shorter string
\* is padded with zeros, an empty or longer one or one with another
\* character is an error
OidFromStr(s) ==
    IF s = <<>> \/ Len(s) > 40 \/ \E i \in DOMAIN s : ~IsHex(s[i]) THEN Err
    ELSE Ok([i \in 1..40 |-> IF i <= Len(s) THEN FromHex(s[i]) ELSE 0])

\* Oid's Display: lower case hex
OidToString(oid) ==
    [i \in DOMAIN oid |-> IF oid[i] < 10 THEN Digits[oid[i] + 1] ELSE LowerHex[oid[i] - 9]]

OidZero == [i \in 1..40 |-> 0]

\* serde_json::Value, as far as the model's inputs go: Null and the
\* unsigned numbers
Null == [kind |-> "null", n |-> 0]
Number(n) == [kind |-> "number", n |-> n]

IsWhitespace(c) == c \in {" ", "\n"}

RECURSIVE TrimStart(_)
TrimStart(s) ==
    IF s # <<>> /\ IsWhitespace(Head(s)) THEN TrimStart(Tail(s)) ELSE s

RECURSIVE TrimEnd(_)
TrimEnd(s) ==
    IF s # <<>> /\ IsWhitespace(s[Len(s)]) THEN TrimEnd(SubSeq(s, 1, Len(s) - 1)) ELSE s

RECURSIVE DigitsToNat(_)
DigitsToNat(s) ==
    IF s = <<>> THEN 0
    ELSE DigitsToNat(SubSeq(s, 1, Len(s) - 1)) * 10 + (IndexIn(s[Len(s)], Digits) - 1)

RECURSIVE NatToDigits(_)
NatToDigits(n) ==
    IF n < 10 THEN <<Digits[n + 1]>>
    ELSE NatToDigits(n \div 10) \o <<Digits[(n % 10) + 1]>>

\* serde_json::from_str::<serde_json::Value>: whitespace around the value is
\* skipped; a number has no leading zero; anything else the model's
\* characters can spell is an error
JsonFromStr(s) ==
    LET t == TrimEnd(TrimStart(s))
    IN  IF t = <<>> THEN Err
        ELSE IF \E i \in DOMAIN t : ~IsIn(t[i], Digits) THEN Err
        ELSE IF Len(t) > 1 /\ t[1] = "0" THEN Err
        ELSE Ok(Number(DigitsToNat(t)))

\* serde_json::to_string: the compact text of the value
JsonToString(value) ==
    IF value.kind = "null" THEN <<"n", "u", "l", "l">> ELSE NatToDigits(value.n)

\* the blob hashes git gives the texts the model can write
Hash_1 ==
    <<"5", "6", "a", "6", "0", "5", "1", "c", "a", "2", "b", "0", "2", "b",
      "0", "4", "e", "f", "9", "2", "d", "5", "1", "5", "0", "c", "9", "e",
      "f", "6", "0", "0", "4", "0", "3", "c", "b", "1", "d", "e">>
Hash_2 ==
    <<"d", "8", "2", "6", "3", "e", "e", "9", "8", "6", "0", "5", "9", "4",
      "d", "2", "8", "0", "6", "b", "0", "d", "f", "d", "1", "b", "f", "d",
      "1", "7", "5", "2", "8", "b", "0", "b", "a", "2", "a", "4">>
Hash_Space1 ==
    <<"1", "7", "5", "8", "0", "8", "3", "d", "e", "f", "d", "1", "3", "4",
      "d", "0", "b", "c", "2", "0", "3", "8", "5", "7", "1", "2", "1", "1",
      "0", "0", "d", "2", "c", "4", "b", "7", "0", "9", "0", "8">>

BlobOid_1 == OidFromStr(Hash_1).v
BlobOid_2 == OidFromStr(Hash_2).v
BlobOid_Space1 == OidFromStr(Hash_Space1).v

\* git2::Oid::hash_object(ObjectType::Blob, bytes)
HashObject(bytes) ==
    CASE bytes = <<"1">> -> BlobOid_1
      [] bytes = <<"2">> -> BlobOid_2
      [] bytes = <<" ", "1">> -> BlobOid_Space1

FormatMarkerHashesInput(input) ==
    LET value == JsonFromStr(input)
    IN  IF ~value.ok THEN Err
        ELSE Ok(OidToString(HashObject(input)) \o <<":">> \o JsonToString(value.v))

\* format_marker
FormatMarker(input) ==
    LET value == JsonFromStr(input)
    IN  IF ~value.ok THEN Err
        ELSE LET line == JsonToString(value.v)
                 hash == HashObject(line)
             IN  Ok(OidToString(hash) \o <<":">> \o line)

\* str::split(sep): the pieces between the separators
RECURSIVE Split(_, _)
Split(s, sep) ==
    LET at == {j \in DOMAIN s : s[j] = sep}
    IN  IF at = {} THEN <<s>>
        ELSE LET i == CHOOSE j \in at : \A k \in at : j <= k
             IN  <<SubSeq(s, 1, i - 1)>> \o Split(SubSeq(s, i + 1, Len(s)), sep)

\* str::splitn(2, sep): split at the first separator only
Splitn2(s, sep) ==
    LET at == {j \in DOMAIN s : s[j] = sep}
    IN  IF at = {} THEN <<s>>
        ELSE LET i == CHOOSE j \in at : \A k \in at : j <= k
             IN  <<SubSeq(s, 1, i - 1), SubSeq(s, i + 1, Len(s))>>

\* prev.split("\n").filter(|x| *x != "")
PrevLines(prev) == SelectSeq(Split(prev, "\n"), LAMBDA x : x # <<>>)

\* lines.join("\n")
RECURSIVE JoinLines(_)
JoinLines(lines) ==
    IF lines = <<>> THEN <<>>
    ELSE IF Len(lines) = 1 THEN lines[1]
    ELSE lines[1] \o <<"\n">> \o JoinLines(Tail(lines))

\* one line put in its place in a sorted vector
InsertSorted(x, s) ==
    LET k == Cardinality({i \in DOMAIN s : ~LexLess(x, s[i])})
    IN  SubSeq(s, 1, k) \o <<x>> \o SubSeq(s, k + 1, Len(s))

\* lines.sort()
RECURSIVE SortLines(_)
SortLines(lines) ==
    IF lines = <<>> THEN <<>> ELSE InsertSorted(Head(lines), SortLines(Tail(lines)))

\* lines.dedup(): of consecutive equal lines the first stays
RECURSIVE Dedup(_)
Dedup(lines) ==
    IF Len(lines) <= 1 THEN lines
    ELSE IF lines[1] = lines[2] THEN Dedup(Tail(lines))
    ELSE <<lines[1]>> \o Dedup(Tail(lines))

\* marker_path(commit, topic)
MarkerPath(commit, topic) ==
    <<topic, "~", SubSeq(commit, 1, 2), SubSeq(commit, 3, 5), SubSeq(commit, 6, 9), commit>>

\* the repository's commits that meta calls can name, with their oids
C1Hex ==
    <<"3", "a", "8", "3", "6", "4", "1", "2", "c", "e", "3", "e", "f", "9",
      "1", "a", "1", "e", "2", "d", "9", "1", "9", "a", "f", "4", "8", "d",
      "f", "c", "5", "8", "2", "d", "b", "e", "d", "4", "a", "4">>
MetaCommits == {RepoCommit("sig", "sig", "m", empty_tree, <<>>)}
CommitOids == [c \in MetaCommits |-> OidFromStr(C1Hex).v]

\* repo.find_commit(oid) is Ok
FindCommit(db, oid) == \E c \in db \cap MetaCommits : CommitOids[c] = oid

\* filter::tree::empty and filter::tree::insert: a tree is the map from the
\* paths of its blobs to their contents
TreeEmpty == EmptyMap
TreeInsert(tree, path, blob) == Insert(tree, path, blob)

\* tree.get_path(path) and the blob's content, or ""
PrevAt(tree, path) == IF path \in DOMAIN tree THEN tree[path] ELSE <<>>

\* mm.data.iter().map(format_marker).collect::<JoshResult<Vec<_>>>()
RECURSIVE CollectMarkers(_)
CollectMarkers(data) ==
    IF data = <<>> THEN Ok(<<>>)
    ELSE LET m == FormatMarker(Head(data))
             rest == CollectMarkers(Tail(data))
         IN  IF ~m.ok \/ ~rest.ok THEN Err ELSE Ok(<<m.v>> \o rest.v)

\* the body of `for mm in add` for the entries from i on
RECURSIVE MetaAdd(_, _, _, _, _)
MetaAdd(commit, topic, add, i, tree) ==
    IF i > Len(add) THEN Ok(tree)
    ELSE LET path == Append(MarkerPath(commit, topic), add[i].path)
             prev == PrevAt(tree, path)
             mm == CollectMarkers(add[i].data)
         IN  IF ~mm.ok THEN Err
             ELSE LET lines == Dedup(SortLines(PrevLines(prev) \o mm.v))
                      blob == JoinLines(lines)
                  IN  MetaAdd(commit, topic, add, i + 1, TreeInsert(tree, path, blob))

\* RepositoryMut::meta committing every tree as a root commit
RepositoryMutMetaRoot(commit, topic, add, ref, db) ==
    LET oid == OidFromStr(commit)
    IN  IF ~oid.ok THEN Err
        ELSE IF ~FindCommit(db, oid.v) THEN Err
        ELSE LET tree == IF ref # None THEN ref[1].tree ELSE TreeEmpty
                 r == MetaAdd(commit, topic, add, 1, tree)
             IN  IF ~r.ok THEN Err
                 ELSE Ok(RepoCommit("sig", "sig", "marker", r.v, <<>>))

\* RepositoryMut::meta(commit, topic, add): Err, or Ok(the commit the meta
\* ref is set to)
RepositoryMutMeta(commit, topic, add, ref, db) ==
    LET oid == OidFromStr(commit)
    IN  IF ~oid.ok THEN Err
        ELSE IF ~FindCommit(db, oid.v) THEN Err
        ELSE LET tree == IF ref # None THEN ref[1].tree ELSE TreeEmpty
                 parents == IF ref # None THEN <<ref[1]>> ELSE <<>>
                 r == MetaAdd(commit, topic, add, 1, tree)
             IN  IF ~r.ok THEN Err
                 ELSE Ok(RepoCommit("sig", "sig", "marker", r.v, parents))

Document(id, value) == [id |-> id, value |-> value]

\* the Document of one line of a marker blob
LineDocument(x) ==
    LET s == Splitn2(x, ":")
        id == OidFromStr(s[1])
        value == IF Len(s) > 1 THEN JsonFromStr(s[2]) ELSE Err
    IN  Document(IF id.ok THEN id.v ELSE OidZero, IF value.ok THEN value.v ELSE Null)

\* the line has a JSON part and it parses
HasValidJson(x) == Len(Splitn2(x, ":")) > 1 /\ JsonFromStr(Splitn2(x, ":")[2]).ok

\* Markers::data leaving out the lines whose JSON part does not parse
MarkersDataSkipsInvalid(commit_id, topic, path, ref) ==
    LET tree == IF ref # None THEN ref[1].tree ELSE TreeEmpty
        commit == OidToString(commit_id)
        p == Append(MarkerPath(commit, topic), path)
        prev == PrevAt(tree, p)
        lines == SelectSeq(PrevLines(prev), HasValidJson)
    IN  [i \in DOMAIN lines |-> LineDocument(lines[i])]

\* Markers::data with the Nop filter
MarkersData(commit_id, topic, path, ref) ==
    LET tree == IF ref # None THEN ref[1].tree ELSE TreeEmpty
        commit == OidToString(commit_id)
        p == Append(MarkerPath(commit, topic), path)
        prev == PrevAt(tree, p)
        lines == PrevLines(prev)
    IN  [i \in DOMAIN lines |-> LineDocument(lines[i])]

----------------------------------------------------------------------------
(* The state machine *)

\* no request is being served
Threads == {1, 2}
Idle == [at |-> "idle", op |-> "none", old |-> None, new |-> None, current |-> None,
         result |-> NoChanges, seen |-> EmptyMap, db |-> {}]
NoThreads == [t \in Threads |-> Idle]

NoCall == [op |-> "none", old |-> None, new |-> None, ret |-> None,
           result |-> NoChanges, panic |-> FALSE, fresh |-> FALSE,
           wrote |-> {}, log |-> EmptyMap, pre_bwd |-> EmptyMap,
           prev |-> None, between |-> FALSE]

NoMeta == [op |-> "none", commit |-> <<>>, commit_id |-> <<>>, topic |-> "",
           path |-> "", add |-> <<>>, ok |-> FALSE, pre |-> None,
           docs |-> <<>>, after |-> None]

Init ==
    /\ odb = {}
    /\ view \in Views
    /\ forward_map = EmptyMap
    /\ backward_maps = EmptyMap
    /\ last = NoCall
    /\ meta_ref = None
    /\ mlast = NoMeta
    /\ refs = EmptyMap
    /\ threads = NoThreads
    /\ mutex = None

ParentLists(db) ==
    {<<>>} \cup {<<p>> : p \in db}
           \cup {<<p, q>> : <<p, q>> \in {pq \in db \X db : pq[1] # pq[2]}}

\* a commit arrives in the store from outside (a fetch, a push onto a
\* projected branch)
Push(author, message, tree, parents) ==
    /\ last = NoCall
    /\ Cardinality(odb) < MaxCommits
    /\ Len(parents) <= MaxParents
    /\ odb' = odb \cup {RepoCommit(author, author, message, tree, parents)}
    /\ UNCHANGED <<view, forward_map, backward_maps, last, meta_ref, mlast, refs, threads, mutex>>

\* one call of apply_view_cached with this pair's maps
Project(newrev) ==
    /\ last = NoCall
    /\ \E r \in ApplyViewCached(view, newrev, CallState(forward_map, BackwardMap, odb)) :
        /\ Cardinality(r.st.odb) <= MaxStore
        /\ odb' = r.st.odb
        /\ forward_map' = r.st.fwd
        /\ backward_maps' = Insert(backward_maps, MapKey, r.st.bwd)
        /\ last' = [NoCall EXCEPT !.op = "apply", !.new = Some(newrev), !.ret = r.ret,
                                  !.panic = r.st.panic,
                                  !.fresh = (forward_map = EmptyMap /\ BackwardMap = EmptyMap),
                                  !.wrote = r.st.odb \ odb, !.log = r.st.log]
        /\ UNCHANGED <<view, meta_ref, mlast, refs, threads, mutex>>

\* one call of unapply_view
Unapply(old, new) ==
    /\ last = NoCall
    /\ Cardinality(odb) <= MaxCommits
    /\ \E r \in UnapplyViewOutcomes(view, backward_maps, MapKey, odb, old, new) :
        /\ Cardinality(r.odb) <= MaxStore
        /\ odb' = r.odb
        /\ backward_maps' = r.maps
        /\ last' = [NoCall EXCEPT !.op = "unapply", !.old = Some(old), !.new = Some(new),
                                  !.result = r.ret, !.wrote = r.odb \ odb,
                                  !.pre_bwd = BackwardMap]
        /\ UNCHANGED <<view, forward_map, meta_ref, mlast, refs, threads, mutex>>

\* the caller takes the result; calls do not overlap
Return ==
    /\ last # NoCall
    /\ last' = NoCall
    /\ UNCHANGED <<odb, view, forward_map, backward_maps, meta_ref, mlast, refs, threads, mutex>>

Next ==
    \/ \E a \in Signatures, m \in Messages, t \in Trees, ps \in ParentLists(odb) :
           Push(a, m, t, ps)
    \/ \E c \in odb : Project(c)
    \/ \E old \in odb, new \in odb : Unapply(old, new)
    \/ Return

Spec == Init /\ [][Next]_vars

----------------------------------------------------------------------------
(* The marker overlay as a state machine *)

\* a call adds at most this many entries
MaxAdd == 2
\* an entry has at most this many data items
MaxData == 2
\* calls are taken while refs/josh/meta has fewer commits than this
MaxWrites == 2

Topics == {"t"}
Paths == {"p", "q"}
\* texts sent as marker data: a number, one with a space before it, and one
\* that is not JSON
JsonInputs == {<<" ", "1">>, <<"2">>, <<"x">>}

ToUpper(s) ==
    [i \in DOMAIN s |-> IF IsIn(s[i], LowerHex) THEN UpperHex[IndexIn(s[i], LowerHex)] ELSE s[i]]

\* the commit argument: the oid of a commit of the repository in lower and
\* in upper case, a hex string that names no commit, and a string that is
\* not hex
GoodCommitStrings == {C1Hex, ToUpper(C1Hex)}
BadCommitStrings == {<<"3", "a">>, <<"x">>}

SeqsUpTo(S, n) == UNION {[1..k -> S] : k \in 0..n}

MarkersInput(path, data) == [path |-> path, data |-> data]
MarkersInputs == {MarkersInput(p, d) : p \in Paths, d \in SeqsUpTo(JsonInputs, MaxData)}

RECURSIVE ChainLen(_)
ChainLen(ref) ==
    IF ref = None THEN 0
    ELSE IF ref[1].parents = <<>> THEN 1
    ELSE 1 + ChainLen(Some(ref[1].parents[1]))

\* RepositoryMut::meta, holding the transaction's lock from start to end
MetaWrite(commit, topic, add) ==
    /\ mlast = NoMeta
    /\ ChainLen(meta_ref) < MaxWrites
    /\ LET r == RepositoryMutMeta(commit, topic, add, meta_ref, odb)
       IN  /\ meta_ref' = IF r.ok THEN Some(r.v) ELSE meta_ref
           /\ odb' = IF r.ok THEN odb \cup {r.v} ELSE odb
           /\ mlast' = [NoMeta EXCEPT !.op = "write", !.commit = commit, !.topic = topic,
                                      !.add = add, !.ok = r.ok, !.pre = meta_ref]
    /\ UNCHANGED <<view, forward_map, backward_maps, last, refs, threads, mutex>>

\* Markers::data, right after a write or on its own
MetaRead(commit_id, topic, path) ==
    /\ mlast.op \in {"none", "write"}
    /\ mlast' = [NoMeta EXCEPT !.op = "read", !.commit_id = commit_id, !.topic = topic,
                               !.path = path,
                               !.docs = MarkersData(commit_id, topic, path, meta_ref),
                               !.after = IF mlast.op = "write" THEN Some(mlast) ELSE None]
    /\ UNCHANGED <<odb, view, forward_map, backward_maps, last, meta_ref, refs, threads, mutex>>

\* the caller takes the result
MetaReturn ==
    /\ mlast # NoMeta
    /\ mlast' = NoMeta
    /\ UNCHANGED <<odb, view, forward_map, backward_maps, last, meta_ref, refs, threads, mutex>>

MetaInit ==
    /\ odb = MetaCommits
    /\ view = "nop"
    /\ forward_map = EmptyMap
    /\ backward_maps = EmptyMap
    /\ last = NoCall
    /\ meta_ref = None
    /\ mlast = NoMeta
    /\ refs = EmptyMap
    /\ threads = NoThreads
    /\ mutex = None

\* the arguments of the calls of the model
GoodAdds == SeqsUpTo(MarkersInputs, MaxAdd)
BadAdds == {add \in GoodAdds : Len(add) <= 1}

MetaNext ==
    \/ /\ mlast = NoMeta
       /\ \E commit \in GoodCommitStrings, topic \in Topics, add \in GoodAdds :
            MetaWrite(commit, topic, add)
    \/ /\ mlast = NoMeta
       /\ \E commit \in BadCommitStrings, topic \in Topics, add \in BadAdds :
            MetaWrite(commit, topic, add)
    \/ \E c \in MetaCommits, topic \in Topics, path \in Paths :
          MetaRead(CommitOids[c], topic, path)
    \/ MetaReturn

MetaSpec == MetaInit /\ [][MetaNext]_vars

----------------------------------------------------------------------------
(* Reads of a marker tree that another writer of the repository left at
   refs/josh/meta: the ref is an ordinary reference of the repository, and
   Markers::data parses whatever blob it finds at the marker's path *)

\* a blob has at most this many lines
MaxLines == 3

\* lines of a stored blob: a record, a record whose JSON part does not
\* parse, a record whose oid part does not parse, a line without a colon
StoredRecord == OidToString(BlobOid_2) \o <<":", "2">>
StoredBadJson == OidToString(BlobOid_2) \o <<":", "x">>
StoredBadOid == <<"x", ":", "2">>
StoredNoColon == <<"x">>
StoredLines == {StoredRecord, StoredBadJson, StoredBadOid, StoredNoColon}

StoredBlobs == {JoinLines(lines) : lines \in SeqsUpTo(StoredLines, MaxLines)}

\* the commit at refs/josh/meta whose tree holds the blob for C1Hex, topic
\* "t", path "p"
StoredMeta(blob) ==
    RepoCommit("sig", "sig", "marker",
               TreeInsert(TreeEmpty, Append(MarkerPath(C1Hex, "t"), "p"), blob), <<>>)

ReadInit ==
    /\ \E blob \in StoredBlobs :
        /\ meta_ref = Some(StoredMeta(blob))
        /\ odb = MetaCommits \cup {StoredMeta(blob)}
    /\ view = "nop"
    /\ forward_map = EmptyMap
    /\ backward_maps = EmptyMap
    /\ last = NoCall
    /\ mlast = NoMeta
    /\ refs = EmptyMap
    /\ threads = NoThreads
    /\ mutex = None

ReadNext ==
    \/ /\ mlast = NoMeta
       /\ \E c \in MetaCommits, topic \in Topics, path \in Paths :
            MetaRead(CommitOids[c], topic, path)
    \/ MetaReturn

ReadSpec == ReadInit /\ [][ReadNext]_vars

----------------------------------------------------------------------------
(* Concurrent requests on one pair of caches. unapply_view takes the lock of
   the backward maps for its lookup (scratch.rs:74-84); a projection is made
   by a caller that holds the lock of the caches from before the projection
   until it has its result (graphql.rs:95-108). *)

\* the commits of the repository: a root commit and a child
LockRoot == RepoCommit("sig", "sig", "m", <<1, 0>>, <<>>)
LockChild == RepoCommit("sig", "sig", "m", <<1, 1>>, <<LockRoot>>)
LockCommits == {LockRoot, LockChild}
\* filters without Transform parent instructions
LockViews == {"nop", "glob"}

\* Mutex::lock returning at once
LockNeverBlocks(m) == TRUE

\* Mutex::lock returns when no thread holds the guard
LockFree(m) == m = None

\* lines 56-72: the call starts; old == new returns NoChanges
UnapplyCall(t, old, new) ==
    /\ threads[t].at = "idle"
    /\ Cardinality(odb) <= MaxCommits
    /\ threads' = [threads EXCEPT ![t] =
            [Idle EXCEPT !.at = IF old = new THEN "result" ELSE "lock",
                         !.op = "unapply", !.old = Some(old), !.new = Some(new)]]
    /\ UNCHANGED <<odb, view, forward_map, backward_maps, last, meta_ref, mlast, refs, mutex>>

\* line 75: backward_maps.lock().unwrap()
UnapplyLock(t) ==
    /\ threads[t].at = "lock"
    /\ LockFree(mutex)
    /\ mutex' = Some(t)
    /\ threads' = [threads EXCEPT ![t].at = "lookup"]
    /\ UNCHANGED <<odb, view, forward_map, backward_maps, last, meta_ref, mlast, refs>>

\* lines 77-84: the entry of the map, bm.get(&old), and the end of the block
\* (or the return) that drops the guard
UnapplyLookup(t) ==
    /\ threads[t].at = "lookup"
    /\ LET maps1 == EntryOrInsert(backward_maps, MapKey)
           current == BackwardLookup(maps1[MapKey], threads[t].old[1])
       IN  /\ backward_maps' = maps1
           /\ threads' = [threads EXCEPT ![t].at = IF current = None THEN "result" ELSE "walk",
                                         ![t].current = current,
                                         ![t].result = RejectNoFF,
                                         ![t].seen = backward_maps,
                                         ![t].db = odb]
    /\ mutex' = None
    /\ UNCHANGED <<odb, view, forward_map, last, meta_ref, mlast, refs>>

\* lines 86-138: the descendant test, the walk and the rewrites, without the
\* lock
UnapplyRest(t) ==
    /\ threads[t].at = "walk"
    /\ \E r \in UnapplyAfterLookup(view, threads[t].current[1], odb,
                                   threads[t].old[1], threads[t].new[1]) :
        /\ Cardinality(r.odb) <= MaxStore
        /\ odb' = r.odb
        /\ threads' = [threads EXCEPT ![t].at = "result", ![t].result = r.ret]
    /\ UNCHANGED <<view, forward_map, backward_maps, last, meta_ref, mlast, refs, mutex>>

\* the caller has the result
ThreadReturn(t) ==
    /\ threads[t].at = "result"
    /\ threads' = [threads EXCEPT ![t] = Idle]
    /\ UNCHANGED <<odb, view, forward_map, backward_maps, last, meta_ref, mlast, refs, mutex>>

\* a request that projects newrev takes the lock of the caches
ProjectLock(t, newrev) ==
    /\ threads[t].at = "idle"
    /\ LockFree(mutex)
    /\ mutex' = Some(t)
    /\ threads' = [threads EXCEPT ![t] =
            [Idle EXCEPT !.at = "project", !.op = "apply", !.new = Some(newrev)]]
    /\ UNCHANGED <<odb, view, forward_map, backward_maps, last, meta_ref, mlast, refs>>

\* apply_view_cached with the locked caches
ProjectRun(t) ==
    /\ threads[t].at = "project"
    /\ \E r \in ApplyViewCached(view, threads[t].new[1],
                                CallState(forward_map, BackwardMap, odb)) :
        /\ Cardinality(r.st.odb) <= MaxStore
        /\ odb' = r.st.odb
        /\ forward_map' = r.st.fwd
        /\ backward_maps' = Insert(backward_maps, MapKey, r.st.bwd)
        /\ threads' = [threads EXCEPT ![t].at = "projected", ![t].current = r.ret]
    /\ UNCHANGED <<view, last, meta_ref, mlast, refs, mutex>>

\* the request has its result; the guard is dropped
ProjectUnlock(t) ==
    /\ threads[t].at = "projected"
    /\ mutex' = None
    /\ threads' = [threads EXCEPT ![t] = Idle]
    /\ UNCHANGED <<odb, view, forward_map, backward_maps, last, meta_ref, mlast, refs>>

LockInit ==
    /\ odb = LockCommits
    /\ view \in LockViews
    /\ forward_map = EmptyMap
    /\ backward_maps = EmptyMap
    /\ last = NoCall
    /\ meta_ref = None
    /\ mlast = NoMeta
    /\ refs = EmptyMap
    /\ threads = NoThreads
    /\ mutex = None

LockNext ==
    \/ \E t \in Threads, old \in odb, new \in odb : UnapplyCall(t, old, new)
    \/ \E t \in Threads : UnapplyLock(t)
    \/ \E t \in Threads : UnapplyLookup(t)
    \/ \E t \in Threads : UnapplyRest(t)
    \/ \E t \in Threads : ThreadReturn(t)
    \/ \E t \in Threads, c \in LockCommits : ProjectLock(t, c)
    \/ \E t \in Threads : ProjectRun(t)
    \/ \E t \in Threads : ProjectUnlock(t)

LockSpec == LockInit /\ [][LockNext]_vars

----------------------------------------------------------------------------
(* Projections that are cut off between the two cache insertions of a
   commit (scratch.rs:305 and 306), and projections that find the caches
   such a call left behind *)

\* m without the key k
Without(m, k) == [x \in DOMAIN m \ {k} |-> m[x]]

\* apply_view_cached(newrev) stopped after forward_map.insert(newrev, ..)
\* and before backward_map.insert(.., newrev): newrev is the last commit of
\* the walk, so all other insertions of the call are made
ProjectInterrupted(newrev) ==
    /\ last = NoCall
    /\ \E r \in ApplyViewCached(view, newrev, CallState(forward_map, BackwardMap, odb)) :
        /\ Cardinality(r.st.odb) <= MaxStore
        /\ ~r.st.panic
        /\ newrev \in DOMAIN r.st.log
        /\ r.st.log[newrev].kind = "rewrite"
        /\ r.st.log[newrev].bwd_added = {r.ret[1]}
        /\ odb' = r.st.odb
        /\ forward_map' = r.st.fwd
        /\ backward_maps' = Insert(backward_maps, MapKey, Without(r.st.bwd, r.ret[1]))
        /\ last' = [NoCall EXCEPT !.op = "interrupted", !.new = Some(newrev),
                                  !.wrote = r.st.odb \ odb, !.log = r.st.log]
    /\ UNCHANGED <<view, meta_ref, mlast, refs, threads, mutex>>

PartialInit ==
    /\ odb = {}
    /\ view \in LockViews
    /\ forward_map = EmptyMap
    /\ backward_maps = EmptyMap
    /\ last = NoCall
    /\ meta_ref = None
    /\ mlast = NoMeta
    /\ refs = EmptyMap
    /\ threads = NoThreads
    /\ mutex = None

PartialNext ==
    \/ \E a \in Signatures, m \in Messages, t \in Trees, ps \in ParentLists(odb) :
           Push(a, m, t, ps)
    \/ \E c \in odb : Project(c)
    \/ \E c \in odb : ProjectInterrupted(c)
    \/ Return

PartialSpec == PartialInit /\ [][PartialNext]_vars

\* the same without the interrupted calls
CompleteNext ==
    \/ \E a \in Signatures, m \in Messages, t \in Trees, ps \in ParentLists(odb) :
           Push(a, m, t, ps)
    \/ \E c \in odb : Project(c)
    \/ Return

CompleteSpec == PartialInit /\ [][CompleteNext]_vars

----------------------------------------------------------------------------
(* apply_view_to_branch and the references it reads and writes *)

\* a reference name is the sequence of its components between the slashes
Branches == {<<"master">>, <<"dev">>}
Namespaces == {<<"ns">>}

\* format!("refs/heads/{}", branchname)
FromRefsname(branchname) == <<"refs", "heads">> \o branchname
\* format!("refs/namespaces/{}/refs/heads/{}", &ns, &branchname)
ToRefname(ns, branchname) == <<"refs", "namespaces">> \o ns \o <<"refs", "heads">> \o branchname
\* format!("refs/namespaces/{}/HEAD", &ns)
ToHead(ns) == <<"refs", "namespaces">> \o ns \o <<"HEAD">>

\* transform_commit: every outcome [st, refs]; a panic of the projection
\* ends the call
TransformCommit(v, from_refsname, to_refname, st, rf) ==
    IF st.panic \/ from_refsname \notin DOMAIN rf THEN {[st |-> st, refs |-> rf]}
    ELSE {[st |-> r.st,
           refs |-> IF r.ret # None THEN Insert(rf, to_refname, r.ret[1]) ELSE rf] :
            r \in ApplyViewCached(v, rf[from_refsname], st)}

\* apply_view_to_branch mirroring every branch at HEAD
ApplyViewToBranchAlwaysHead(v, branchname, ns, st, rf) ==
    UNION {TransformCommit(v, FromRefsname(branchname), ToHead(ns), r.st, r.refs) :
            r \in TransformCommit(v, FromRefsname(branchname), ToRefname(ns, branchname), st, rf)}

\* apply_view_to_branch(repo, branchname, viewobj, forward_map,
\* backward_map, ns): every outcome [st, refs]
ApplyViewToBranch(v, branchname, ns, st, rf) ==
    LET first == TransformCommit(v, FromRefsname(branchname), ToRefname(ns, branchname), st, rf)
    IN  IF branchname = <<"master">>
        THEN UNION {TransformCommit(v, <<"refs", "heads", "master">>, ToHead(ns), r.st, r.refs) :
                     r \in first}
        ELSE first

\* the commits of the repository: a root commit, a child of it, a root
\* commit that the filters Glob and Workspace drop, and a root commit whose
\* projection under these filters is a new commit
BranchCommits ==
    {LockRoot, LockChild,
     RepoCommit("sig", "sig", "m", <<0, 1>>, <<>>),
     RepoCommit("sig", "sig", BadUtf8, <<1, 1>>, <<>>)}

\* a push moves refs/heads/<branch> to a commit
SetBranch(branchname, c) ==
    /\ last = NoCall
    /\ refs' = Insert(refs, FromRefsname(branchname), c)
    /\ UNCHANGED <<odb, view, forward_map, backward_maps, last, meta_ref, mlast, threads, mutex>>

\* one call of apply_view_to_branch with this pair's maps
ProjectBranch(branchname, ns) ==
    /\ last = NoCall
    /\ \E r \in ApplyViewToBranch(view, branchname, ns,
                                  CallState(forward_map, BackwardMap, odb), refs) :
        /\ Cardinality(r.st.odb) <= MaxStore
        /\ odb' = r.st.odb
        /\ forward_map' = r.st.fwd
        /\ backward_maps' = Insert(backward_maps, MapKey, r.st.bwd)
        /\ refs' = r.refs
        /\ last' = [op |-> "branch", branchname |-> branchname, ns |-> ns,
                    panic |-> r.st.panic]
    /\ UNCHANGED <<view, meta_ref, mlast, threads, mutex>>

BranchInit ==
    /\ odb = BranchCommits
    /\ view \in Views
    /\ forward_map = EmptyMap
    /\ backward_maps = EmptyMap
    /\ last = NoCall
    /\ meta_ref = None
    /\ mlast = NoMeta
    /\ refs = EmptyMap
    /\ threads = NoThreads
    /\ mutex = None

BranchNext ==
    \/ \E b \in Branches, c \in BranchCommits : SetBranch(b, c)
    \/ \E b \in Branches, ns \in Namespaces : ProjectBranch(b, ns)
    \/ Return

BranchSpec == BranchInit /\ [][BranchNext]_vars

----------------------------------------------------------------------------
(* Projections of a history in which two root commits have the same
   projection, a merge of the two, and a child of the merge *)

MergeHistory ==
    LET root == RepoCommit("sig", "sig", "m", <<1, 0>>, <<>>)
        other == RepoCommit("sig", "sig", "m", <<1, 1>>, <<>>)
        both == RepoCommit("sig", "sig", "m", <<1, 0>>, <<root, other>>)
        child == RepoCommit("sig", "sig", "m", <<1, 1>>, <<both>>)
    IN  {root, other, both, child}

MergeInit ==
    /\ odb = MergeHistory
    /\ view \in Views
    /\ forward_map = EmptyMap
    /\ backward_maps = EmptyMap
    /\ last = NoCall
    /\ meta_ref = None
    /\ mlast = NoMeta
    /\ refs = EmptyMap
    /\ threads = NoThreads
    /\ mutex = None

MergeNext ==
    \/ \E c \in odb : Project(c)
    \/ Return

MergeSpec == MergeInit /\ [][MergeNext]_vars

----------------------------------------------------------------------------
(* unapply_view called again with the new of a Done result as its old, with
   or without projections between the two calls *)

\* a chain of three commits
AgainCommits == {LockRoot, LockChild, RepoCommit("sig", "sig", "m", <<0, 1>>, <<LockChild>>)}

\* unapply_view(old, new2) where old is the new of the call before, which
\* returned Done
UnapplyAgain(new2) ==
    /\ last.op = "unapply"
    /\ last.result.kind = "Done"
    /\ Cardinality(odb) <= MaxCommits + 1
    /\ \E r \in UnapplyViewOutcomes(view, backward_maps, MapKey, odb, last.new[1], new2) :
        /\ Cardinality(r.odb) <= MaxStore
        /\ odb' = r.odb
        /\ backward_maps' = r.maps
        /\ last' = [NoCall EXCEPT !.op = "unapply", !.old = last.new, !.new = Some(new2),
                                  !.result = r.ret, !.wrote = r.odb \ odb,
                                  !.pre_bwd = BackwardMap,
                                  !.prev = Some([last EXCEPT !.prev = None])]
    /\ UNCHANGED <<view, forward_map, meta_ref, mlast, refs, threads, mutex>>

\* a projection between the two calls
ProjectBetween(newrev) ==
    /\ last.op = "unapply"
    /\ last.result.kind = "Done"
    /\ \E r \in ApplyViewCached(view, newrev, CallState(forward_map, BackwardMap, odb)) :
        /\ Cardinality(r.st.odb) <= MaxStore
        /\ odb' = r.st.odb
        /\ forward_map' = r.st.fwd
        /\ backward_maps' = Insert(backward_maps, MapKey, r.st.bwd)
    /\ last' = [last EXCEPT !.between = TRUE]
    /\ UNCHANGED <<view, meta_ref, mlast, refs, threads, mutex>>

AgainInit ==
    /\ odb = AgainCommits
    /\ view \in Views
    /\ forward_map = EmptyMap
    /\ backward_maps = EmptyMap
    /\ last = NoCall
    /\ meta_ref = None
    /\ mlast = NoMeta
    /\ refs = EmptyMap
    /\ threads = NoThreads
    /\ mutex = None

AgainNext ==
    \/ \E c \in odb : Project(c)
    \/ \E old \in odb, new \in odb : Unapply(old, new)
    \/ \E new2 \in odb : UnapplyAgain(new2)
    \/ \E c \in odb : ProjectBetween(c)
    \/ Return

AgainSpec == AgainInit /\ [][AgainNext]_vars

----------------------------------------------------------------------------
(* Properties of the projector *)

LastApply == last.op = "apply"
LastRev == last.new[1]
LogEvents == DOMAIN last.log

\* C1: under the Nop filter a projection started from empty caches returns
\* the commit itself, writes no commit, and leaves forward[a] = a and
\* backward[a] = a for the commit and each of its ancestors.
C1_NopIdentity ==
    (LastApply /\ view = "nop" /\ last.fresh) =>
        /\ ~last.panic
        /\ last.ret = Some(LastRev)
        /\ last.wrote = {}
        /\ \A c \in LogEvents : last.log[c].committed = {}
        /\ \A a \in Ancestors(LastRev) :
            /\ Get(forward_map, a) = Some(a)
            /\ Get(BackwardMap, a) = Some(a)

\* a merge one of whose parents has the merge's tree, and an ancestor with
\* the empty tree, were projected under Nop from empty caches
C1_Witness ==
    /\ LastApply /\ view = "nop" /\ last.fresh
    /\ Len(LastRev.parents) = 2
    /\ LastRev.parents[1].tree = LastRev.tree
    /\ \E a \in Ancestors(LastRev) : a.tree = empty_tree

\* C2: whenever a walked commit's new tree is its own tree and the kept
\* parents are its own parents, no commit is written for it and forward maps
\* it to itself.
C2_SignaturePreserved ==
    LastApply =>
        \A c \in LogEvents :
            LET e == last.log[c]
            IN  (/\ e.kind \in {"rewrite", "coalesce"}
                 /\ e.new_tree = c.tree
                 /\ SeqToSet(e.kept) = SeqToSet(c.parents)) =>
                    /\ e.committed = {}
                    /\ e.wrote = {}
                    /\ Get(forward_map, c) = Some(c)

\* under a filter that changes other trees, a commit with a parent and a
\* message that is not UTF-8 was projected to itself
C2_Witness ==
    /\ LastApply /\ view = "glob"
    /\ \E c \in LogEvents :
        /\ last.log[c].kind = "rewrite"
        /\ last.log[c].new_tree = c.tree
        /\ last.log[c].kept = c.parents
        /\ Len(c.parents) >= 1
        /\ c.message = BadUtf8
    /\ \E c \in LogEvents : last.log[c].wrote # {}

\* what the filter's Transform instructions project the parents of c to
TransformedParents(c) ==
    LET pts == ParentTransforms(view, c)
    IN  UNION {{r.ret[1] : r \in {x \in ApplyView(CallState(EmptyMap, EmptyMap, odb),
                                                  pts[i][1][1], pts[i][2]) :
                                  x.ret # None}} :
               i \in {j \in DOMAIN pts : pts[j][1] # None}}

NoDroppedInForward ==
    \A c \in DOMAIN forward_map :
        ~(ApplyToTree(view, c.tree) = empty_tree /\ c.tree # empty_tree)

\* C3 as stated: no dropped commit is in forward, and every parent of a
\* materialized projected commit exists in the store and is a value of
\* forward.
C3_Original ==
    /\ NoDroppedInForward
    /\ \A p \in DOMAIN BackwardMap :
        \A i \in DOMAIN p.parents :
            /\ p.parents[i] \in odb
            /\ p.parents[i] \in Values(forward_map)

\* C3 amended: no dropped commit is in forward, and every parent of a
\* materialized projected commit exists in the store and is either the value
\* forward has for a parent of the original commit, or what a Transform
\* instruction of the filter projected a parent of the original commit to.
C3_EmptyDrop ==
    /\ NoDroppedInForward
    /\ \A p \in DOMAIN BackwardMap :
        \A i \in DOMAIN p.parents :
            /\ p.parents[i] \in odb
            /\ \/ \E j \in DOMAIN BackwardMap[p].parents :
                    Get(forward_map, BackwardMap[p].parents[j]) = Some(p.parents[i])
               \/ p.parents[i] \in TransformedParents(BackwardMap[p])

\* a merge with a dropped parent and a projected one was materialized with
\* the projected parent alone
C3_Witness ==
    /\ LastApply /\ view = "glob"
    /\ \E c \in LogEvents :
        /\ last.log[c].kind = "rewrite"
        /\ Len(c.parents) = 2
        /\ \E i \in DOMAIN c.parents : c.parents[i] \notin DOMAIN forward_map
        /\ Len(forward_map[c].parents) = 1
        /\ forward_map[c] # c

\* C4: when parents were projected and filtering keeps none, forward maps the
\* commit to the first projected parent, nothing is written, backward gets no
\* entry, and the walk goes on to the other commits.
C4_Coalesce ==
    (LastApply /\ ~last.panic) =>
        /\ \A c \in LogEvents :
            LET e == last.log[c]
            IN  (e.kind # "drop" /\ e.tps # <<>> /\ e.kept = <<>>) =>
                    /\ e.kind = "coalesce"
                    /\ Get(forward_map, c) = Some(e.tps[1])
                    /\ e.committed = {}
                    /\ e.wrote = {}
                    /\ e.bwd_added = {}
                    /\ e.fwd_added = {c}
        /\ LogEvents # {} =>
            \A a \in Ancestors(LastRev) : a \in DOMAIN forward_map \/ a \in LogEvents

\* a merge whose two parents were projected to different commits was
\* coalesced
C4_Witness ==
    /\ LastApply /\ ~last.panic
    /\ \E c \in LogEvents :
        /\ last.log[c].kind = "coalesce"
        /\ Len(last.log[c].tps) = 2
        /\ last.log[c].tps[1] # last.log[c].tps[2]
        /\ forward_map[c] = last.log[c].tps[1]

KeysKept(m, n) == \A k \in DOMAIN m : k \in DOMAIN n
Unchanged(m, n) == \A k \in DOMAIN m : k \in DOMAIN n /\ n[k] = m[k]

----------------------------------------------------------------------------
(* Properties of unapply_view *)

LastUnapply == last.op = "unapply"
LastOld == last.old[1]
LastNew == last.new[1]

\* new descends from old through single-parent commits only
RECURSIVE LinearDescent(_, _)
LinearDescent(old, new) ==
    /\ new # old
    /\ Len(new.parents) = 1
    /\ \/ new.parents[1] = old
       \/ LinearDescent(old, new.parents[1])

\* the commits the walk from old to new visits
Range(old, new) == Ancestors(new) \ Ancestors(old)

\* a tree the filter can produce
InImage(v, t) == \E u \in Trees : ApplyToTree(v, u) = t

\* C6: for a projected commit old with a backward entry and a new that
\* descends from it through single-parent commits (with trees the filter can
\* produce), unapply_view returns Done(r) and projecting r with the same
\* filter and caches yields new.
C6_RoundTrip ==
    (/\ LastUnapply
     /\ view # "workspace"
     /\ LastOld \in DOMAIN last.pre_bwd
     /\ LinearDescent(LastOld, LastNew)
     /\ \A m \in Range(LastOld, LastNew) : InImage(view, m.tree)) =>
        /\ last.result.kind = "Done"
        /\ \A r \in ApplyViewCached(view, last.result.oid[1],
                                    CallState(forward_map, BackwardMap, odb)) :
                r.ret = Some(LastNew)

MergeInRange(old, new) ==
    /\ old # new
    /\ old \in Ancestors(new)
    /\ \E m \in Range(old, new) : Len(m.parents) > 1

\* C7 as stated: with a merge in the range from old to new the result is
\* RejectMerge.
C7_Original ==
    (LastUnapply /\ MergeInRange(LastOld, LastNew)) => last.result = RejectMerge

\* C7 amended: with a backward entry for old and a merge in the range from
\* old to new the result is RejectMerge.
C7_RejectMerge ==
    (/\ LastUnapply
     /\ LastOld \in DOMAIN last.pre_bwd
     /\ MergeInRange(LastOld, LastNew)) => last.result = RejectMerge

\* a merge was rejected after a single-parent commit of the range had been
\* rewritten
C7_Witness ==
    /\ LastUnapply
    /\ LastOld \in DOMAIN last.pre_bwd
    /\ MergeInRange(LastOld, LastNew)
    /\ last.result = RejectMerge
    /\ last.wrote # {}

\* C8 as stated: without a backward entry for old the result is RejectNoFF.
C8_Original ==
    (LastUnapply /\ LastOld \notin DOMAIN last.pre_bwd) => last.result = RejectNoFF

\* C8 amended: without a backward entry for old, and old # new, the result
\* is RejectNoFF.
C8_RejectNoFF ==
    (/\ LastUnapply
     /\ LastOld # LastNew
     /\ LastOld \notin DOMAIN last.pre_bwd) => last.result = RejectNoFF

\* old had no backward entry although other commits had, and new was a
\* descendant of old
C8_Witness ==
    /\ LastUnapply
    /\ LastOld \notin DOMAIN last.pre_bwd
    /\ last.pre_bwd # EmptyMap
    /\ LinearDescent(LastOld, LastNew)
    /\ last.result = RejectNoFF

\* r is reached from base by a chain of n commits, each with the one before
\* it as its only parent
RECURSIVE ChainFrom(_, _, _)
ChainFrom(r, base, n) ==
    IF n = 0 THEN r = base
    ELSE /\ Len(r.parents) = 1
         /\ ChainFrom(r.parents[1], base, n - 1)

\* C17: the result is NoChanges when old = new; else RejectNoFF when
\* backward has no entry for old; else RejectNoFF when new is not a
\* descendant of old; else RejectMerge when a commit between old (exclusive)
\* and new has more than one parent; else Done(r), with r reached from
\* backward[old] by a chain of as many single-parent commits as lie between
\* old and new.
C17_DecisionOrder ==
    LastUnapply =>
        IF LastOld = LastNew THEN last.result = NoChanges
        ELSE IF LastOld \notin DOMAIN last.pre_bwd THEN last.result = RejectNoFF
        ELSE IF LastOld \notin Ancestors(LastNew) THEN last.result = RejectNoFF
        ELSE IF \E m \in Range(LastOld, LastNew) : Len(m.parents) > 1
        THEN last.result = RejectMerge
        ELSE /\ last.result.kind = "Done"
             /\ last.result.oid[1] \in odb
             /\ ChainFrom(last.result.oid[1], last.pre_bwd[LastOld],
                          Cardinality(Range(LastOld, LastNew)))

\* Done for two commits on top of old, rewritten onto an original of old
\* that is another commit than old
C17_Witness ==
    /\ LastUnapply
    /\ last.result.kind = "Done"
    /\ Cardinality(Range(LastOld, LastNew)) = 2
    /\ last.pre_bwd[LastOld] # LastOld
    /\ last.wrote # {}

----------------------------------------------------------------------------
(* Properties of the marker overlay *)

MetaTree == IF meta_ref = None THEN TreeEmpty ELSE meta_ref[1].tree

\* a Document written back as the line it was read from
Render(doc) == OidToString(doc.id) \o <<":">> \o JsonToString(doc.value)
RenderAll(docs) == [i \in DOMAIN docs |-> Render(docs[i])]

\* the formatted data items of the entries of add for one path, in order
RECURSIVE FormattedFor(_, _)
FormattedFor(add, path) ==
    IF add = <<>> THEN <<>>
    ELSE (IF Head(add).path = path THEN CollectMarkers(Head(add).data).v ELSE <<>>)
         \o FormattedFor(Tail(add), path)

\* the last call was a read that directly followed a successful write for
\* the same commit, topic and path
ReadAfterWrite ==
    /\ mlast.op = "read"
    /\ mlast.after # None
    /\ mlast.after[1].ok
    /\ OidFromStr(mlast.after[1].commit) = Ok(mlast.commit_id)
    /\ mlast.after[1].topic = mlast.topic
    /\ \E i \in DOMAIN mlast.after[1].add : mlast.after[1].add[i].path = mlast.path

\* what the claim expects the read to return
ExpectedRecords ==
    LET w == mlast.after[1]
        previous == RenderAll(MarkersData(mlast.commit_id, mlast.topic, mlast.path, w.pre))
    IN  Dedup(SortLines(previous \o FormattedFor(w.add, mlast.path)))

\* C9: a read that directly follows a successful write of d1..dn for the
\* same commit, topic and path returns the records that were there before
\* together with the formatted d1..dn, sorted and without duplicates.
C9_ReadAfterWrite ==
    ReadAfterWrite => RenderAll(mlast.docs) = ExpectedRecords

\* C10: every blob of the tree at the meta ref is its records joined by
\* newlines, the records are in strictly ascending byte order, and each is
\* oid:json with json the canonical text and oid its blob hash.
C10_MarkerStore ==
    \A path \in DOMAIN MetaTree :
        LET blob == MetaTree[path]
            records == PrevLines(blob)
        IN  /\ blob = JoinLines(records)
            /\ \A i \in 1..(Len(records) - 1) : LexLess(records[i], records[i + 1])
            /\ \A i \in DOMAIN records :
                LET s == Splitn2(records[i], ":")
                IN  /\ Len(s) = 2
                    /\ JsonFromStr(s[2]).ok
                    /\ JsonToString(JsonFromStr(s[2]).v) = s[2]
                    /\ s[1] = OidToString(HashObject(s[2]))

\* a second write added, to a blob of one record, two data items in
\* descending order of which one was there already, and the tree holds
\* another blob as well
C10_Witness ==
    /\ mlast.op = "write" /\ mlast.ok /\ mlast.pre # None
    /\ Cardinality(DOMAIN MetaTree) >= 2
    /\ \E i \in DOMAIN mlast.add :
        LET path == Append(MarkerPath(mlast.commit, mlast.topic), mlast.add[i].path)
        IN  /\ mlast.add[i].data = << <<"2">>, <<" ", "1">> >>
            /\ path \in DOMAIN mlast.pre[1].tree
            /\ Len(PrevLines(mlast.pre[1].tree[path])) = 1
            /\ Len(PrevLines(MetaTree[path])) = 2

\* the commit argument names no commit of the repository, or a datum of add
\* is not valid JSON
WriteFails(commit, add, db) ==
    \/ ~OidFromStr(commit).ok
    \/ ~FindCommit(db, OidFromStr(commit).v)
    \/ \E i \in DOMAIN add : \E j \in DOMAIN add[i].data : ~JsonFromStr(add[i].data[j]).ok

\* the step is a call of RepositoryMut::meta
IsMetaWrite == mlast = NoMeta /\ mlast'.op = "write"

\* C11: a successful RepositoryMut.meta call creates exactly one new commit,
\* whose only parent is the commit the meta ref pointed to before the call
\* (none when the ref was absent), and moves the meta ref to it, so that the
\* single-parent chain of the head grows by one with every successful write;
\* a call that fails, and every other step, leaves the meta ref unchanged.
C11_LinearHistory ==
    [][/\ IsMetaWrite =>
            IF WriteFails(mlast'.commit, mlast'.add, odb)
            THEN ~mlast'.ok /\ meta_ref' = meta_ref /\ odb' = odb
            ELSE /\ mlast'.ok
                 /\ meta_ref' # None
                 /\ odb' \ odb = {meta_ref'[1]}
                 /\ meta_ref'[1].parents = (IF meta_ref = None THEN <<>> ELSE <<meta_ref[1]>>)
                 /\ ChainLen(meta_ref') = ChainLen(meta_ref) + 1
       /\ ~IsMetaWrite => meta_ref' = meta_ref]_vars

\* a second successful write: the head's only parent is the previous head,
\* which is a root commit
C11_Witness ==
    /\ mlast.op = "write" /\ mlast.ok /\ mlast.pre # None
    /\ meta_ref # None
    /\ meta_ref[1].parents = <<mlast.pre[1]>>
    /\ mlast.pre[1].parents = <<>>
    /\ ChainLen(meta_ref) = 2

\* the records (the lines that are not empty) of the blob the last read
\* addressed
ReadLines ==
    LET p == Append(MarkerPath(OidToString(mlast.commit_id), mlast.topic), mlast.path)
    IN  IF p \in DOMAIN MetaTree
        THEN SelectSeq(Split(MetaTree[p], "\n"), LAMBDA x : x # <<>>)
        ELSE <<>>

\* the value a record's document has when the record is not skipped
RecordValue(x) ==
    IF x \in {StoredRecord, StoredBadOid} THEN Number(2) ELSE Null

\* C12 as stated: a read returns one document per stored record with valid
\* JSON and no document for a record with invalid JSON.
C12_Original ==
    mlast.op = "read" =>
        LET valid == SelectSeq(ReadLines, LAMBDA x : x \in {StoredRecord, StoredBadOid})
        IN  /\ Len(mlast.docs) = Len(valid)
            /\ \A i \in DOMAIN valid : mlast.docs[i].value = RecordValue(valid[i])

\* C12: a read returns one document per stored record, in stored order; a
\* record whose JSON part is invalid or missing is not skipped, its document
\* has the value null.
C12_NullDocuments ==
    mlast.op = "read" =>
        /\ Len(mlast.docs) = Len(ReadLines)
        /\ \A i \in DOMAIN ReadLines :
            /\ mlast.docs[i].value = RecordValue(ReadLines[i])
            /\ mlast.docs[i].id = (IF ReadLines[i] \in {StoredRecord, StoredBadJson}
                                    THEN BlobOid_2 ELSE OidZero)

\* a read of a blob that holds a record with invalid JSON between two valid
\* records returned three documents, the second with the value null
C12_Witness ==
    /\ mlast.op = "read"
    /\ ReadLines = <<StoredRecord, StoredBadJson, StoredBadOid>>
    /\ Len(mlast.docs) = 3
    /\ mlast.docs[2] = Document(BlobOid_2, Null)

----------------------------------------------------------------------------
(* Properties of concurrent requests *)

\* the thread is between its cache lookup and its result
AfterLookup(t) == threads[t].at \in {"walk", "projected"}

\* the thread is at a read or write of the cache maps, or holds what it read
\* under the lock
Holding(t) == threads[t].at \in {"lookup", "project", "projected"}

\* C13 as stated: while a call is between its cache lookup and its result,
\* no other request has the lock of the cache maps.
C13_Original ==
    \A t \in Threads, u \in Threads :
        (t # u /\ AfterLookup(t)) => mutex # Some(u)

\* C13: a projection holds the lock of the caches from its start to its
\* result and unapply_view holds it for its cache lookup only, so that no two
\* requests are at the cache maps at once; the result of an unapply_view
\* call is a result the call has on the caches and the store as they were at
\* its lookup, whatever other requests did before it returned.
C13_LookupLocked ==
    \A t \in Threads :
        /\ Holding(t) <=> mutex = Some(t)
        /\ (threads[t].op = "unapply" /\ threads[t].at = "result" /\ threads[t].old # threads[t].new) =>
              threads[t].result \in
                  {r.ret : r \in UnapplyViewOutcomes(view, threads[t].seen, MapKey, threads[t].db,
                                                     threads[t].old[1], threads[t].new[1])}

\* an unapply_view call returns Done, and between its lookup and its result
\* another request wrote the backward map
C13_Witness ==
    \E t \in Threads :
        /\ threads[t].op = "unapply" /\ threads[t].at = "result"
        /\ threads[t].result.kind = "Done"
        /\ MapKey \in DOMAIN threads[t].seen
        /\ BackwardMap # threads[t].seen[MapKey]

----------------------------------------------------------------------------
(* Properties of interrupted projections *)

\* the results of a projection of newrev that starts from empty caches
FromEmptyCaches(newrev) ==
    {r.ret : r \in ApplyViewCached(view, newrev, CallState(EmptyMap, EmptyMap, odb))}

\* C14: an apply_view_cached call, also one that is given the caches an
\* interrupted projection left behind, completes without failing and returns
\* the projected oid of a projection started from empty caches.
C14_PartialWritesSafe ==
    LastApply => (~last.panic /\ last.ret \in FromEmptyCaches(LastRev))

\* an apply_view_cached call completes without failing
ProjectionCompletes == LastApply => ~last.panic

----------------------------------------------------------------------------
(* Properties of apply_view_to_branch *)

\* the step is a call of apply_view_to_branch that did not panic
IsBranchCall == last = NoCall /\ last'.op = "branch" /\ ~last'.panic

\* the two maps agree on every name but those of S
SameExcept(rf1, rf2, S) ==
    /\ DOMAIN rf1 \ S = DOMAIN rf2 \ S
    /\ \A n \in DOMAIN rf1 \ S : rf1[n] = rf2[n]

\* C15: when refs/heads/<branch> exists and its head projects to p, the call
\* leaves refs/namespaces/<ns>/refs/heads/<branch> at p, for master also
\* refs/namespaces/<ns>/HEAD, and changes no other reference; when the
\* source is missing or its head is dropped, no reference is created or
\* changed.
C15_BranchRefs ==
    [][IsBranchCall =>
        LET b == last'.branchname
            ns == last'.ns
            from == FromRefsname(b)
            p == IF from \in DOMAIN refs THEN Get(forward_map', refs[from]) ELSE None
        IN  IF p = None THEN refs' = refs
            ELSE /\ Get(refs', ToRefname(ns, b)) = p
                 /\ IF b = <<"master">>
                    THEN /\ Get(refs', ToHead(ns)) = p
                         /\ SameExcept(refs', refs, {ToRefname(ns, b), ToHead(ns)})
                    ELSE SameExcept(refs', refs, {ToRefname(ns, b)})]_vars

\* master was projected to a commit other than its head, the projection is at
\* the namespace's branch and HEAD, and dev, which was projected earlier,
\* is at another commit
C15_Witness ==
    /\ last # NoCall /\ last.op = "branch" /\ last.branchname = <<"master">> /\ ~last.panic
    /\ FromRefsname(<<"master">>) \in DOMAIN refs
    /\ ToHead(last.ns) \in DOMAIN refs
    /\ refs[ToHead(last.ns)] = refs[ToRefname(last.ns, <<"master">>)]
    /\ refs[ToHead(last.ns)] # refs[FromRefsname(<<"master">>)]
    /\ ToRefname(last.ns, <<"dev">>) \in DOMAIN refs
    /\ refs[ToRefname(last.ns, <<"dev">>)] # refs[ToHead(last.ns)]

----------------------------------------------------------------------------
(* Properties of parent filtering *)

\* the projected parents of c that the claim keeps, in their order: bwd is
\* the backward map as it is when c's parents are filtered
KeptBy(c, e) ==
    SelectSeq(e.tps, LAMBDA p : \/ p.tree # e.new_tree
                                \/ (p \in DOMAIN e.bwd /\ e.bwd[p].tree = c.tree))

\* C16: the parents given to the rewritten commit of c are exactly the
\* projected parents p', in order, with p'.tree # new_tree or with
\* backward[p'].tree = c.tree, backward being the map at the time of the
\* filtering; so the materialized commit has a parent with its own tree only
\* if c and the original recorded for that parent have equal trees.
C16_ParentFiltering ==
    LastApply =>
        \A c \in LogEvents :
            LET e == last.log[c]
            IN  e.kind = "rewrite" =>
                    /\ e.kept = KeptBy(c, e)
                    /\ forward_map[c].tree = e.new_tree
                    /\ forward_map[c].parents = e.kept
                    /\ \A i \in DOMAIN forward_map[c].parents :
                        LET p == forward_map[c].parents[i]
                        IN  p.tree = forward_map[c].tree =>
                                (p \in DOMAIN e.bwd /\ e.bwd[p].tree = c.tree)

\* a merge was rewritten with one projected parent left out, because it has
\* the new tree and its original has another tree than the merge, and one
\* kept although it has the new tree, because its original has the merge's
\* tree
C16_Witness ==
    /\ LastApply
    /\ \E c \in LogEvents :
        LET e == last.log[c]
        IN  /\ e.kind = "rewrite"
            /\ Len(e.tps) = 2
            /\ Len(e.kept) = 1
            /\ e.tps[1].tree = e.new_tree /\ e.tps[2].tree = e.new_tree
            /\ forward_map[c].parents[1].tree = forward_map[c].tree

----------------------------------------------------------------------------
(* The backward lookup of parent filtering *)

\* C18: in a run of apply_view_cached that starts from empty caches, every
\* backward lookup of parent filtering finds its entry (the call does not
\* fail at backward_map[..]), and every value stored in forward is a key of
\* backward.
C18_LookupFinds ==
    (LastApply /\ last.fresh) =>
        /\ ~last.panic
        /\ \A c \in DOMAIN forward_map : forward_map[c] \in DOMAIN BackwardMap

----------------------------------------------------------------------------
(* What unapply_view leaves alone *)

\* the step is a call of unapply_view
UnapplyStep == last'.op = "unapply" /\ ~last'.between /\ last' # last

\* no reference and no oid entry of a cache map changes; what is added is an
\* empty map under the call's key, and commits
FrameKept ==
    /\ refs' = refs
    /\ meta_ref' = meta_ref
    /\ forward_map' = forward_map
    /\ \A k \in DOMAIN backward_maps :
        k \in DOMAIN backward_maps' /\ backward_maps'[k] = backward_maps[k]
    /\ \A k \in DOMAIN backward_maps' \ DOMAIN backward_maps :
        k = MapKey /\ backward_maps'[k] = EmptyMap
    /\ odb \subseteq odb'

\* C19 as stated: unapply_view keeps the frame, and a second call whose old is
\* the new of a Done result returns RejectNoFF unless backward[new] was
\* recorded between the two calls.
C19_Original ==
    [][UnapplyStep =>
        /\ FrameKept
        /\ last'.prev # None =>
            \/ last'.result = RejectNoFF
            \/ /\ last'.old[1] \in DOMAIN last'.pre_bwd
               /\ last'.old[1] \notin DOMAIN last'.prev[1].pre_bwd]_vars

\* C19: unapply_view keeps the frame; a second call whose old is the new of
\* a Done result finds the backward map of the first call when no
\* projection ran in between, and returns RejectNoFF unless its new is its
\* old or backward[old] was recorded, before the first call or in between.
C19_Frame ==
    [][UnapplyStep =>
        /\ FrameKept
        /\ last'.prev # None =>
            /\ \/ last'.result = RejectNoFF
               \/ last'.old = last'.new
               \/ last'.old[1] \in DOMAIN last'.pre_bwd
            /\ ~last'.prev[1].between => last'.pre_bwd = last'.prev[1].pre_bwd]_vars

\* the first call wrote commits and added no entry; the second call, for a
\* child of the first call's new, returned RejectNoFF
C19_Witness ==
    /\ LastUnapply
    /\ last.prev # None
    /\ ~last.prev[1].between
    /\ last.prev[1].wrote # {}
    /\ last.prev[1].pre_bwd # EmptyMap
    /\ LinearDescent(LastOld, LastNew)
    /\ last.result = RejectNoFF

=============================================================================
